---- MODULE Spec2Model ----
(***************************************************************************)
(* cnb-shim: an HTTP service that wraps a legacy (v2) buildpack into a    *)
(* v3 (CNB) package.  The model follows src/src/main.rs: the route chain  *)
(* of mod filters, the handler handlers::shim step by step, and the       *)
(* rejection recovery handlers::rejection.                                 *)
(*                                                                         *)
(* Strings are sequences of one-character strings, so that parsing and    *)
(* formatting are computed and not assumed.                                *)
(***************************************************************************)
EXTENDS Integers, Sequences, FiniteSets, TLC

VARIABLES
    req,      \* req[r]: the HTTP request r as received (method, path, raw query)
    pc,       \* pc[r]: the position of request r in the route chain / handler
    opts,     \* opts[r]: models::ShimOptions decoded from the query
    desc,     \* desc[r]: the locals id, version, name, api, stacks of handlers::shim
    uuid,     \* uuid[r]: the token of shimmed_buildpack, 0 before it is generated
    tmp,      \* tmp[r]: the name of tmp_dir, 0 while the request holds none
    binIdx,   \* binIdx[r]: index of the next entry point the copy loop handles
    remote,   \* remote[r]: the registry's response being streamed by download
    fs,       \* the local filesystem: path -> file data
    err,      \* err[r]: the Rejection the route chain carries, "none" if none
    resp,     \* resp[r]: the HTTP response sent, NoResp before
    trace     \* trace[r]: the operations request r has performed, in order

vars == <<req, pc, opts, desc, uuid, tmp, binIdx, remote, fs, err, resp, trace>>

-----------------------------------------------------------------------------
(* Bounds of the model                                                     *)

\* names tempfile::tempdir can draw from, per request of the run
NumTmp == 1
\* values uuid::Uuid::new_v4 can draw from, per request of the run
NumUuid == 1
\* largest number of chunks the registry's body stream delivers
MaxChunks == 2

-----------------------------------------------------------------------------
(* Strings                                                                 *)

None == <<>>
Some(v) == <<v>>
IsSome(o) == Len(o) = 1
Unwrap(o) == o[1]

Digits == {"0", "1", "2", "3", "4", "5", "6", "7", "8", "9"}

Letters ==
    {"a", "b", "c", "d", "e", "f", "g", "h", "i", "j", "k", "l", "m",
     "n", "o", "p", "q", "r", "s", "t", "u", "v", "w", "x", "y", "z",
     "A", "B", "C", "D", "E", "F", "G", "H", "I", "J", "K", "L", "M",
     "N", "O", "P", "Q", "R", "S", "T", "U", "V", "W", "X", "Y", "Z"}

Alnum == Letters \cup Digits

DigitVal(c) ==
    CASE c = "0" -> 0 [] c = "1" -> 1 [] c = "2" -> 2 [] c = "3" -> 3
      [] c = "4" -> 4 [] c = "5" -> 5 [] c = "6" -> 6 [] c = "7" -> 7
      [] c = "8" -> 8 [] c = "9" -> 9

DigitChar(d) == <<"0", "1", "2", "3", "4", "5", "6", "7", "8", "9">>[d + 1]

\* the index of the first c in s, 0 if there is none
IndexOf(s, c) ==
    IF \E i \in 1..Len(s) : s[i] = c
    THEN CHOOSE i \in 1..Len(s) : s[i] = c /\ \A j \in 1..(i - 1) : s[j] # c
    ELSE 0

IsNumeric(s) == Len(s) > 0 /\ \A i \in 1..Len(s) : s[i] \in Digits

RECURSIVE ParseNat(_)
ParseNat(s) ==
    IF Len(s) = 0 THEN 0
    ELSE 10 * ParseNat(SubSeq(s, 1, Len(s) - 1)) + DigitVal(s[Len(s)])

RECURSIVE FormatNat(_)
FormatNat(n) ==
    IF n < 10 THEN <<DigitChar(n)>>
    ELSE FormatNat(n \div 10) \o <<DigitChar(n % 10)>>

\* the pieces of s between occurrences of sep
RECURSIVE Split(_, _)
Split(s, sep) ==
    LET i == IndexOf(s, sep) IN
    IF i = 0 THEN <<s>>
    ELSE <<SubSeq(s, 1, i - 1)>> \o Split(SubSeq(s, i + 1, Len(s)), sep)

-----------------------------------------------------------------------------
(* The parsers handlers::shim calls (libcnb::data::buildpack)               *)

\* a result of a fallible call: Ok(v) or Err(e)
Ok(v) == [ok |-> TRUE, val |-> v, why |-> ""]
Err(e) == [ok |-> FALSE, val |-> <<>>, why |-> e]

IdChars == Alnum \cup {".", "/", "-"}

\* BuildpackId::from_str: one or more of [[:alnum:]./-], not "app" or "config"
BuildpackId_from_str(s) ==
    IF /\ Len(s) > 0
       /\ \A i \in 1..Len(s) : s[i] \in IdChars
       /\ s # <<"a", "p", "p">>
       /\ s # <<"c", "o", "n", "f", "i", "g">>
    THEN Ok(s) ELSE Err("InvalidBuildpackId")

\* StackId::from_str: one or more of [[:alnum:]./-]
StackId_from_str(s) ==
    IF Len(s) > 0 /\ \A i \in 1..Len(s) : s[i] \in IdChars
    THEN Ok(s) ELSE Err("InvalidStackId")

\* a numeric identifier of a version: digits, no leading zero
IsVersionNumber(s) == IsNumeric(s) /\ (Len(s) > 1 => s[1] # "0")

\* a pre-release or build tag: dot-separated non-empty runs of [0-9A-Za-z-]
IsVersionTag(s) ==
    LET parts == Split(s, ".") IN
    \A i \in 1..Len(parts) :
        /\ Len(parts[i]) > 0
        /\ \A j \in 1..Len(parts[i]) : parts[i][j] \in Alnum \cup {"-"}

\* Version::parse: <major>.<minor>.<patch>[-<pre>][+<build>]
Version_parse(s) ==
    LET plus  == IndexOf(s, "+")
        nb    == IF plus = 0 THEN s ELSE SubSeq(s, 1, plus - 1)
        build == IF plus = 0 THEN <<>> ELSE SubSeq(s, plus + 1, Len(s))
        dash  == IndexOf(nb, "-")
        core  == IF dash = 0 THEN nb ELSE SubSeq(nb, 1, dash - 1)
        pre   == IF dash = 0 THEN <<>> ELSE SubSeq(nb, dash + 1, Len(nb))
        parts == Split(core, ".")
    IN  IF /\ Len(parts) = 3
           /\ \A i \in 1..3 : IsVersionNumber(parts[i])
           /\ (dash # 0 => IsVersionTag(pre))
           /\ (plus # 0 => IsVersionTag(build))
        THEN Ok([major |-> ParseNat(parts[1]), minor |-> ParseNat(parts[2]),
                 patch |-> ParseNat(parts[3]), pre |-> pre, build |-> build])
        ELSE Err("InvalidVersion")

\* BuildpackApi::from_str: <major>[.<minor>], a missing minor is 0
BuildpackApi_from_str(s) ==
    LET parts == Split(s, ".") IN
    IF Len(parts) \in {1, 2} /\ \A i \in 1..Len(parts) : IsNumeric(parts[i])
    THEN Ok([major |-> ParseNat(parts[1]),
             minor |-> IF Len(parts) = 2 THEN ParseNat(parts[2]) ELSE 0])
    ELSE Err("InvalidBuildpackApi")

-----------------------------------------------------------------------------
(* Resolve: lines 140-168 of handlers::shim                                *)

DEFAULT_API_VERSION == <<"0", ".", "4">>
\* another default version
DEFAULT_VERSION_Other == <<"0", ".", "0", ".", "1">>
DEFAULT_VERSION == <<"0", ".", "1", ".", "0">>
DefaultStacks ==
    << <<"h", "e", "r", "o", "k", "u", "-", "1", "8">>,
       <<"h", "e", "r", "o", "k", "u", "-", "2", "0">> >>

unwrap_or_else(o, d) == IF IsSome(o) THEN Unwrap(o) ELSE d

\* let id = BuildpackId::from_str(&format!("{}/{}", namespace, name))
ResolveId(namespace, name) == BuildpackId_from_str(namespace \o <<"/">> \o name)

\* let version = Version::parse(&query_params.version.unwrap_or_else(DEFAULT_VERSION))
ResolveVersion(q) == Version_parse(unwrap_or_else(q.version, DEFAULT_VERSION))

\* let name = query_params.name.unwrap_or_else(|| String::from(id.as_str()))
ResolveName(q, id) == unwrap_or_else(q.name, id)

\* let api = BuildpackApi::from_str(&query_params.api.unwrap_or_else(DEFAULT_API_VERSION))
ResolveApi(q) == BuildpackApi_from_str(unwrap_or_else(q.api, DEFAULT_API_VERSION))

\* stacks.iter().map(|stack| Ok(Stack { id: StackId::from_str(stack)?, mixins: Vec::new() }))
\*       .collect::<Result<Vec<Stack>, _>>()
ResolveStacks(q) ==
    LET list == unwrap_or_else(q.stacks, DefaultStacks) IN
    IF \A i \in 1..Len(list) : StackId_from_str(list[i]).ok
    THEN Ok([i \in 1..Len(list) |->
                [id |-> StackId_from_str(list[i]).val, mixins |-> <<>>]])
    ELSE Err("InvalidStackId")

\* Resolve without the `?` on the api
Resolve_NoApiCheck(namespace, name, q) ==
    LET id      == ResolveId(namespace, name)
        version == ResolveVersion(q)
        api     == ResolveApi(q)
        stacks  == ResolveStacks(q)
    IN  IF ~id.ok THEN Err("invalid buildpack id")
        ELSE IF ~version.ok THEN Err("invalid buildpack version")
        ELSE IF ~stacks.ok THEN Err("invalid stack")
        ELSE Ok([id |-> id.val, version |-> version.val,
                 name |-> ResolveName(q, id.val),
                 api |-> IF api.ok THEN api.val ELSE [major |-> 0, minor |-> 0],
                 stacks |-> stacks.val])

\* the five bindings in source order, each `?` returning the BadRequestError
Resolve(namespace, name, q) ==
    LET id      == ResolveId(namespace, name)
        version == ResolveVersion(q)
        api     == ResolveApi(q)
        stacks  == ResolveStacks(q)
    IN  IF ~id.ok THEN Err("invalid buildpack id")
        ELSE IF ~version.ok THEN Err("invalid buildpack version")
        ELSE IF ~api.ok THEN Err("invalid buildpack api")
        ELSE IF ~stacks.ok THEN Err("invalid stack")
        ELSE Ok([id |-> id.val, version |-> version.val,
                 name |-> ResolveName(q, id.val), api |-> api.val,
                 stacks |-> stacks.val])

-----------------------------------------------------------------------------
(* Requests                                                                *)

\* the requests of a run
Reqs == DOMAIN pc

\* path segments a client can send as {namespace} and {name}
Namespaces == { <<"h">>, <<"m", "y", "-", "n", "s">>, <<"a", "%">> }
Names == { <<"r", "b">>, <<"g", "o", ".", "1">>, <<"b", "!">> }

\* values of the query parameters a client can send
VersionParams ==
    { None, Some(<<"1", ".", "2", ".", "3">>), Some(<<"0", ".", "1", ".", "0">>),
      Some(<<"2", ".", "0", ".", "0", "-", "r", "c", "1">>),
      Some(<<"1", ".", "2">>), Some(<<"v", "1">>) }
NameParams == { None, Some(<<"M", "y", " ", "B", "P">>) }
ApiParams ==
    { None, Some(<<"0", ".", "4">>), Some(<<"0", ".", "5">>),
      Some(<<"0", ".">>), Some(<<"a", ".", "b">>) }
StacksParams ==
    { None, Some(<<"h", "e", "r", "o", "k", "u", "-", "2", "0">>),
      Some(<<"b", "a", "d", " ", "s">>) }

Methods == {"GET", "POST"}
\* "shim": /v1/{namespace}/{name}; "health": /health; "other": anything else
Paths == {"shim", "health", "other"}

RawQueries ==
    [version : VersionParams, name : NameParams, api : ApiParams,
     stacks : StacksParams]

NoOpts == [version |-> None, name |-> None, api |-> None, stacks |-> None]
NoDesc == [id |-> <<>>, version |-> [major |-> 0, minor |-> 0, patch |-> 0,
                                      pre |-> <<>>, build |-> <<>>],
           name |-> <<>>, api |-> [major |-> 0, minor |-> 0], stacks |-> <<>>]
NoRemote == [status |-> 0, gz |-> FALSE, entries |-> {}, left |-> 0]
NoReq == [method |-> "", path |-> "", namespace |-> <<>>, name |-> <<>>,
          query |-> NoOpts]
NoResp == [status |-> 0, text |-> "", filename |-> "", ctype |-> "",
           archive |-> <<>>]

\* warp::query::<models::ShimOptions>(): serde_urlencoded decodes every value
\* as a string, and a string is no sequence: a query that carries `stacks`
\* does not decode into Option<Vec<String>>
DecodeQuery(raw) ==
    IF IsSome(raw.stacks) THEN Err("InvalidQuery")
    ELSE Ok([version |-> raw.version, name |-> raw.name, api |-> raw.api,
             stacks |-> None])

-----------------------------------------------------------------------------
(* handlers::rejection and handlers::health_check                          *)

INTERNAL_SERVER_ERROR == 500

\* rejection that declines every rejection, as if there were no recover
rejection_Decline(e) == Err("NotFound")

\* rejection without the pass-through of lines 109-111
rejection_AnswerAll(e) ==
    Ok([status |-> INTERNAL_SERVER_ERROR, text |-> "INTERNAL SERVER ERROR",
        filename |-> "", ctype |-> "", archive |-> <<>>])

\* rejection with a message per kind of error
rejection_PerKind(e) ==
    IF e = "NotFound" THEN Err("NotFound")
    ELSE Ok([status |-> INTERNAL_SERVER_ERROR,
             text |-> IF e = "BadRequestError" THEN "BAD REQUEST"
                      ELSE "INTERNAL SERVER ERROR",
             filename |-> "", ctype |-> "", archive |-> <<>>])

\* Err(not_found) is passed on; every other rejection is answered
rejection(e) ==
    IF e = "NotFound" THEN Err("NotFound")
    ELSE Ok([status |-> INTERNAL_SERVER_ERROR, text |-> "INTERNAL SERVER ERROR",
             filename |-> "", ctype |-> "", archive |-> <<>>])

health_check ==
    [status |-> 200, text |-> "health check ok", filename |-> "", ctype |-> "",
     archive |-> <<>>]

\* the reply warp gives a rejection no filter recovered
DefaultReply(e) ==
    [status |-> IF e = "MethodNotAllowed" THEN 405 ELSE 404, text |-> "",
     filename |-> "", ctype |-> "", archive |-> <<>>]

\* one operation of a request, as recorded in trace: the stage it belongs to,
\* whether it touches the filesystem ("fs"), the network ("net") or neither
\* ("pure"), whether it succeeded, and whether the handler returned its error
Event(stage, op, kind, ok) ==
    [stage |-> stage, op |-> op, kind |-> kind, ok |-> ok, returned |-> ~ok]

\* an operation run by a destructor: its result goes nowhere
Unreported(stage, op, kind, ok) ==
    [stage |-> stage, op |-> op, kind |-> kind, ok |-> ok, returned |-> FALSE]

-----------------------------------------------------------------------------
(* The filesystem and the paths of handlers::shim                          *)

Dir == [kind |-> "dir", data |-> <<>>]
File(d) == [kind |-> "file", data |-> d]

Bins == <<"detect", "build", "release", "exports">>

\* buildpack_dir.join("bin").join(bin): the entry points shipped with the service
buildpack_dir == <<"cwd">>
SourceBin(bin) == buildpack_dir \o <<"bin", bin>>

TmpName(t) == "tmp" \o ToString(t)
UuidName(u) == "uuid" \o ToString(u)

\* format!("{}.tgz", uuid::Uuid::new_v4())
shimmed_buildpack(u) == UuidName(u) \o ".tgz"
\* format!("{}/{}.tgz", V2_BUILDPACK_REGISTRY_URL, &id.as_str())
V2_BUILDPACK_REGISTRY_URL == "https://buildpack-registry.s3.amazonaws.com/buildpacks"
v2_buildpack_url(id) == [base |-> V2_BUILDPACK_REGISTRY_URL, file |-> id \o <<".", "t", "g", "z">>]

tmp_dir(t) == <<TmpName(t)>>
shimmed_buildpack_dir(t) == tmp_dir(t) \o <<"buildpack">>
bin_dir(t) == shimmed_buildpack_dir(t) \o <<"bin">>
buildpack_toml_path(t) == shimmed_buildpack_dir(t) \o <<"buildpack.toml">>
v2_buildpack_path(t) == tmp_dir(t) \o <<"buildpack.tgz">>
target_dir(t) == shimmed_buildpack_dir(t) \o <<"target">>
shimmed_buildpack_archive(t, u) == tmp_dir(t) \o <<shimmed_buildpack(u)>>

IsPrefix(p, q) == Len(p) <= Len(q) /\ SubSeq(q, 1, Len(p)) = p

\* the paths at or below p
Under(f, p) == {q \in DOMAIN f : IsPrefix(p, q)}

\* f with the entries of g added or overwritten
Put(f, g) == [q \in DOMAIN f \cup DOMAIN g |-> IF q \in DOMAIN g THEN g[q] ELSE f[q]]

\* remove_dir_all(p)
RemoveAll(f, p) == [q \in DOMAIN f \ Under(f, p) |-> f[q]]

\* TempDir going out of scope: the directory and all below it are removed
DropTmpDir(f, t) == IF t = 0 THEN f ELSE RemoveAll(f, tmp_dir(t))

\* a directory name drawn without regard to the ones in use
FreeTmp_Any == 1..(NumTmp * Cardinality(Reqs))

\* a token drawn without regard to the ones drawn before
FreeUuid_Any == 1..(NumUuid * Cardinality(Reqs))

\* the temporary names and tokens no request of this run has drawn
FreeTmp == (1..(NumTmp * Cardinality(Reqs))) \ {tmp[q] : q \in Reqs}
FreeUuid == (1..(NumUuid * Cardinality(Reqs))) \ {uuid[q] : q \in Reqs}

Log(r, e) == trace' = [trace EXCEPT ![r] = Append(@, e)]

\* Fail with the temporary directory kept (TempDir::into_path)
Fail_KeepTmp(r, e) ==
    /\ err' = [err EXCEPT ![r] = e]
    /\ pc' = [pc EXCEPT ![r] = "rejected"]
    /\ fs' = fs

\* the handler returns Err(rejection): tmp_dir is dropped on the way out
Fail(r, e) ==
    /\ err' = [err EXCEPT ![r] = e]
    /\ pc' = [pc EXCEPT ![r] = "rejected"]
    /\ fs' = DropTmpDir(fs, tmp[r])

-----------------------------------------------------------------------------
(* Initial state: the service is up, no request received                   *)

InitFor(R) ==
    /\ req = [r \in R |-> NoReq]
    /\ pc = [r \in R |-> "idle"]
    /\ opts = [r \in R |-> NoOpts]
    /\ desc = [r \in R |-> NoDesc]
    /\ uuid = [r \in R |-> 0]
    /\ tmp = [r \in R |-> 0]
    /\ binIdx = [r \in R |-> 1]
    /\ remote = [r \in R |-> NoRemote]
    /\ fs = [p \in {buildpack_dir, buildpack_dir \o <<"bin">>}
                    \cup {SourceBin(Bins[i]) : i \in 1..4} |->
                IF Len(p) = 3 THEN File(<<"bin", p[3]>>) ELSE Dir]
    /\ err = [r \in R |-> "none"]
    /\ resp = [r \in R |-> NoResp]
    /\ trace = [r \in R |-> <<>>]

Init == InitFor({1})

-----------------------------------------------------------------------------
(* The route chain: filters::routes = shim(..).recover(rejection).or(health()) *)

\* every request a client can send
Requests ==
    [method : Methods, path : Paths, namespace : Namespaces, name : Names,
     query : RawQueries]

\* a request, one of `sent`, arrives
ReceiveFrom(r, sent) ==
    /\ pc[r] = "idle"
    /\ \E q \in sent : req' = [req EXCEPT ![r] = q]
    /\ pc' = [pc EXCEPT ![r] = "shim_filter"]
    /\ UNCHANGED <<opts, desc, uuid, tmp, binIdx, remote, fs, err, resp, trace>>

\* a request arrives
Receive(r) == ReceiveFrom(r, Requests)

\* filters::shim with get() ahead of path!: the method is looked at first
ShimFilter_MethodFirst(r) ==
    /\ pc[r] = "shim_filter"
    /\ LET q == DecodeQuery(req[r].query) IN
       IF req[r].method # "GET"
       THEN /\ err' = [err EXCEPT ![r] = "MethodNotAllowed"]
            /\ pc' = [pc EXCEPT ![r] = "rejected"]
            /\ opts' = opts
       ELSE IF req[r].path # "shim"
       THEN /\ err' = [err EXCEPT ![r] = "NotFound"]
            /\ pc' = [pc EXCEPT ![r] = "rejected"]
            /\ opts' = opts
       ELSE IF ~q.ok
       THEN /\ err' = [err EXCEPT ![r] = "InvalidQuery"]
            /\ pc' = [pc EXCEPT ![r] = "rejected"]
            /\ opts' = opts
       ELSE /\ opts' = [opts EXCEPT ![r] = q.val]
            /\ pc' = [pc EXCEPT ![r] = "resolve"]
            /\ err' = err
    /\ UNCHANGED <<req, desc, uuid, tmp, binIdx, remote, fs, resp, trace>>

\* filters::shim: path!("v1" / String / String), get(), query(): the first
\* filter that rejects decides; all three passing, handlers::shim is called
ShimFilter(r) ==
    /\ pc[r] = "shim_filter"
    /\ LET q == DecodeQuery(req[r].query) IN
       IF req[r].path # "shim"
       THEN /\ err' = [err EXCEPT ![r] = "NotFound"]
            /\ pc' = [pc EXCEPT ![r] = "rejected"]
            /\ opts' = opts
       ELSE IF req[r].method # "GET"
       THEN /\ err' = [err EXCEPT ![r] = "MethodNotAllowed"]
            /\ pc' = [pc EXCEPT ![r] = "rejected"]
            /\ opts' = opts
       ELSE IF ~q.ok
       THEN /\ err' = [err EXCEPT ![r] = "InvalidQuery"]
            /\ pc' = [pc EXCEPT ![r] = "rejected"]
            /\ opts' = opts
       ELSE /\ opts' = [opts EXCEPT ![r] = q.val]
            /\ pc' = [pc EXCEPT ![r] = "resolve"]
            /\ err' = err
    /\ UNCHANGED <<req, desc, uuid, tmp, binIdx, remote, fs, resp, trace>>

\* .recover(handlers::rejection): a not-found rejection goes on to health(),
\* any other is answered here
Recover(r) ==
    /\ pc[r] = "rejected"
    /\ LET out == rejection(err[r]) IN
       IF out.ok
       THEN /\ resp' = [resp EXCEPT ![r] = out.val]
            /\ pc' = [pc EXCEPT ![r] = "done"]
       ELSE /\ resp' = resp
            /\ pc' = [pc EXCEPT ![r] = "health_filter"]
    /\ UNCHANGED <<req, opts, desc, uuid, tmp, binIdx, remote, fs, err, trace>>

\* filters::health: path!("health"), get(), handlers::health_check; a request
\* it rejects too gets warp's reply for the rejection
HealthFilter(r) ==
    /\ pc[r] = "health_filter"
    /\ IF req[r].path # "health"
       THEN /\ resp' = [resp EXCEPT ![r] = DefaultReply(err[r])]
            /\ err' = err
       ELSE IF req[r].method # "GET"
       THEN /\ resp' = [resp EXCEPT ![r] = DefaultReply("MethodNotAllowed")]
            /\ err' = [err EXCEPT ![r] = "MethodNotAllowed"]
       ELSE /\ resp' = [resp EXCEPT ![r] = health_check]
            /\ err' = [err EXCEPT ![r] = "none"]
    /\ pc' = [pc EXCEPT ![r] = "done"]
    /\ UNCHANGED <<req, opts, desc, uuid, tmp, binIdx, remote, fs, trace>>

-----------------------------------------------------------------------------
(* handlers::shim, one action per fallible step                            *)

\* lines 138-171: the validating parse, then the token and the registry URL
ShimResolve(r) ==
    /\ pc[r] = "resolve"
    /\ LET d == Resolve(req[r].namespace, req[r].name, opts[r]) IN
       IF d.ok
       THEN /\ desc' = [desc EXCEPT ![r] = d.val]
            /\ \E u \in FreeUuid : uuid' = [uuid EXCEPT ![r] = u]
            /\ pc' = [pc EXCEPT ![r] = "tmpdir"]
            /\ Log(r, Event("Resolve", "resolve", "pure", TRUE))
            /\ UNCHANGED <<err, fs>>
       ELSE /\ Fail(r, "BadRequestError")
            /\ Log(r, Event("Resolve", "resolve", "pure", FALSE))
            /\ UNCHANGED <<desc, uuid>>
    /\ UNCHANGED <<req, opts, tmp, binIdx, remote, resp>>

\* line 173: tempfile::tempdir()
CreateTmpDir(r) ==
    /\ pc[r] = "tmpdir"
    /\ \/ /\ \E t \in FreeTmp :
                /\ tmp' = [tmp EXCEPT ![r] = t]
                /\ fs' = Put(fs, tmp_dir(t) :> Dir)
          /\ pc' = [pc EXCEPT ![r] = "bindir"]
          /\ Log(r, Event("Prepare", "tempdir", "fs", TRUE))
          /\ err' = err
       \/ /\ Fail(r, "ServiceError")
          /\ Log(r, Event("Prepare", "tempdir", "fs", FALSE))
          /\ tmp' = tmp
    /\ UNCHANGED <<req, opts, desc, uuid, binIdx, remote, resp>>

\* lines 175-177: fs::create_dir_all(&bin_dir)
CreateBinDir(r) ==
    /\ pc[r] = "bindir"
    /\ \/ /\ fs' = Put(fs, shimmed_buildpack_dir(tmp[r]) :> Dir @@ bin_dir(tmp[r]) :> Dir)
          /\ pc' = [pc EXCEPT ![r] = "copy"]
          /\ Log(r, Event("Prepare", "create_dir_all", "fs", TRUE))
          /\ err' = err
       \/ /\ Fail(r, "ServiceError")
          /\ Log(r, Event("Prepare", "create_dir_all", "fs", FALSE))
    /\ UNCHANGED <<req, opts, desc, uuid, tmp, binIdx, remote, resp>>

\* lines 178-181: one pass of the loop, fs::copy of one entry point
CopyBin(r) ==
    /\ pc[r] = "copy"
    /\ LET bin == Bins[binIdx[r]] IN
       \/ /\ SourceBin(bin) \in DOMAIN fs
          /\ fs' = Put(fs, (bin_dir(tmp[r]) \o <<bin>>) :> fs[SourceBin(bin)])
          /\ binIdx' = [binIdx EXCEPT ![r] = @ + 1]
          /\ pc' = [pc EXCEPT ![r] = IF binIdx[r] = Len(Bins) THEN "manifest" ELSE "copy"]
          /\ Log(r, Event("Prepare", "copy", "fs", TRUE))
          /\ err' = err
       \/ /\ Fail(r, "ServiceError")
          /\ Log(r, Event("Prepare", "copy", "fs", FALSE))
          /\ binIdx' = binIdx
    /\ UNCHANGED <<req, opts, desc, uuid, tmp, remote, resp>>

\* lines 183-195: the BuildpackToml value
buildpack_toml(d) ==
    [api |-> d.api,
     buildpack |-> [id |-> d.id, name |-> d.name, version |-> d.version,
                    homepage |-> None, clear_env |-> FALSE],
     stacks |-> d.stacks, order |-> <<>>, metadata |-> <<>>]

\* Display of Version and BuildpackApi, as serialized
FormatVersion(v) ==
    FormatNat(v.major) \o <<".">> \o FormatNat(v.minor) \o <<".">> \o FormatNat(v.patch)
       \o (IF Len(v.pre) > 0 THEN <<"-">> \o v.pre ELSE <<>>)
       \o (IF Len(v.build) > 0 THEN <<"+">> \o v.build ELSE <<>>)
FormatApi(a) == FormatNat(a.major) \o <<".">> \o FormatNat(a.minor)

\* toml::to_string(&buildpack_toml): the text, as its keys and their values
toml_to_string(t) ==
    [api |-> FormatApi(t.api),
     id |-> t.buildpack.id, name |-> t.buildpack.name,
     version |-> FormatVersion(t.buildpack.version),
     clear_env |-> t.buildpack.clear_env,
     stacks |-> [i \in 1..Len(t.stacks) |->
                    [id |-> t.stacks[i].id, mixins |-> t.stacks[i].mixins]]]

\* lines 197-204: serialize the manifest and fs::write it
WriteManifest(r) ==
    /\ pc[r] = "manifest"
    /\ \/ /\ fs' = Put(fs, buildpack_toml_path(tmp[r]) :>
                              File(toml_to_string(buildpack_toml(desc[r]))))
          /\ pc' = [pc EXCEPT ![r] = "get"]
          /\ Log(r, Event("Prepare", "write_manifest", "fs", TRUE))
          /\ err' = err
       \/ \E op \in {"to_string", "write_manifest"} :
          /\ Fail(r, "ServiceError")
          /\ Log(r, Event("Prepare", op, IF op = "to_string" THEN "pure" ELSE "fs", FALSE))
    /\ UNCHANGED <<req, opts, desc, uuid, tmp, binIdx, remote, resp>>

-----------------------------------------------------------------------------
(* Fetch: handlers::download                                               *)

\* files a legacy package can hold, as paths relative to its root
LegacyFiles == { <<"a.txt">>, <<"sub", "b.txt">> }

\* files of a package made to reach out of the directory it is unpacked in,
\* or to pass for the files of the staging tree
HostileFiles ==
    { <<"..", "buildpack.toml">>, <<"..", "bin", "detect">>,
      <<"buildpack.toml">>, <<"bin", "detect">> }

\* what the registry can answer: a package, an error document, a broken body
Responses ==
    {[status |-> 200, gz |-> TRUE, entries |-> e, left |-> n] :
        e \in SUBSET LegacyFiles \cup {HostileFiles}, n \in 1..MaxChunks}
    \cup {[status |-> st, gz |-> FALSE, entries |-> {}, left |-> n] :
        st \in {200, 404}, n \in 0..MaxChunks}

\* the bytes of a download: a gzip-compressed tar of `entries`, or anything else
Bytes(gz, entries) == [gz |-> gz, entries |-> entries]

\* line 239-240: reqwest::get(uri) and response.bytes_stream(), the registry
\* answering with one of `answers`; the status of the response is not looked
\* at
DownloadGetFrom(r, answers) ==
    /\ pc[r] = "get"
    /\ \/ /\ \E resp0 \in answers : remote' = [remote EXCEPT ![r] = resp0]
          /\ pc' = [pc EXCEPT ![r] = "create"]
          /\ Log(r, Event("Fetch", "get", "net", TRUE))
          /\ UNCHANGED <<err, fs>>
       \/ /\ Fail(r, "BadRequestError")
          /\ Log(r, Event("Fetch", "get", "net", FALSE))
          /\ remote' = remote
    /\ UNCHANGED <<req, opts, desc, uuid, tmp, binIdx, resp>>

DownloadGet(r) == DownloadGetFrom(r, Responses)

\* line 241: fs::File::create(dst)
DownloadCreate(r) ==
    /\ pc[r] = "create"
    /\ \/ /\ fs' = Put(fs, v2_buildpack_path(tmp[r]) :> File(Bytes(FALSE, {})))
          /\ pc' = [pc EXCEPT ![r] = "chunk"]
          /\ Log(r, Event("Fetch", "create", "fs", TRUE))
          /\ err' = err
       \/ /\ Fail(r, "ServiceError")
          /\ Log(r, Event("Fetch", "create", "fs", FALSE))
    /\ UNCHANGED <<req, opts, desc, uuid, tmp, binIdx, remote, resp>>

\* lines 243-245: one chunk of the stream: chunk? then file.write_all
DownloadChunk(r) ==
    /\ pc[r] = "chunk"
    /\ remote[r].left > 0
    /\ \/ /\ fs' = Put(fs, v2_buildpack_path(tmp[r]) :>
                         IF remote[r].left = 1
                         THEN File(Bytes(remote[r].gz, remote[r].entries))
                         ELSE File(Bytes(FALSE, {})))
          /\ remote' = [remote EXCEPT ![r].left = @ - 1]
          /\ pc' = pc
          /\ Log(r, Event("Fetch", "write_all", "fs", TRUE))
          /\ err' = err
       \/ /\ Fail(r, "BadRequestError")
          /\ Log(r, Event("Fetch", "chunk", "net", FALSE))
          /\ remote' = remote
       \/ /\ Fail(r, "ServiceError")
          /\ Log(r, Event("Fetch", "write_all", "fs", FALSE))
          /\ remote' = remote
    /\ UNCHANGED <<req, opts, desc, uuid, tmp, binIdx, resp>>

\* DownloadEnd going on to Pack, the call of untar left out
DownloadEnd_SkipUnpack(r) ==
    /\ pc[r] = "chunk"
    /\ remote[r].left = 0
    /\ pc' = [pc EXCEPT ![r] = "archive"]
    /\ Log(r, Event("Fetch", "end", "net", TRUE))
    /\ UNCHANGED <<req, opts, desc, uuid, tmp, binIdx, remote, fs, err, resp>>

\* lines 243, 247: the stream has ended, download returns Ok(())
DownloadEnd(r) ==
    /\ pc[r] = "chunk"
    /\ remote[r].left = 0
    /\ pc' = [pc EXCEPT ![r] = "untar"]
    /\ Log(r, Event("Fetch", "end", "net", TRUE))
    /\ UNCHANGED <<req, opts, desc, uuid, tmp, binIdx, remote, fs, err, resp>>

-----------------------------------------------------------------------------
(* Unpack: handlers::untar                                                 *)

\* the directories an entry lies in, relative to the archive root
Parents(e) == {SubSeq(e, 1, n) : n \in 1..(Len(e) - 1)}

\* the path p with every ".." resolved, as the filesystem resolves it
RECURSIVE Normal(_)
Normal(p) ==
    IF p = <<>> THEN <<>>
    ELSE LET h == Normal(SubSeq(p, 1, Len(p) - 1)) IN
         IF p[Len(p)] # ".." THEN Append(h, p[Len(p)])
         ELSE IF h = <<>> THEN <<>> ELSE SubSeq(h, 1, Len(h) - 1)

\* Entry::unpack_in leaves out an entry with a ".." in its path
Skipped(e) == \E i \in 1..Len(e) : e[i] = ".."
Kept(entries) == {e \in entries : ~Skipped(e)}

\* dst is created, then the directories and the file of every entry, each
\* at its path joined to dst
WriteEntries(dst, entries) ==
    LET files == {Normal(dst \o e) : e \in entries}
        dirs == {dst} \cup {Normal(dst \o d) : d \in UNION {Parents(e) : e \in entries}}
    IN  [q \in dirs \cup files |->
            IF q \in files
            THEN File(<<"legacy">> \o (CHOOSE e \in entries : Normal(dst \o e) = q))
            ELSE Dir]

\* unpack that writes the entries with ".." too
Unpacked_NoSkip(dst, entries) == WriteEntries(dst, entries)

\* archive.unpack(dst): every entry that is not left out is written below dst
Unpacked(dst, entries) == WriteEntries(dst, Kept(entries))

\* lines 218-219: open the download, gunzip, unpack into target/
Untar(r) ==
    /\ pc[r] = "untar"
    /\ LET src == fs[v2_buildpack_path(tmp[r])].data IN
       \/ /\ src.gz
          /\ fs' = Put(fs, Unpacked(target_dir(tmp[r]), src.entries))
          /\ pc' = [pc EXCEPT ![r] = "archive"]
          /\ Log(r, Event("Unpack", "unpack", "fs", TRUE))
          /\ err' = err
       \/ /\ ~src.gz
          /\ Fail(r, "ServiceError")
          /\ Log(r, Event("Unpack", "decode", "pure", FALSE))
       \/ \E op \in {"open", "unpack"} :
          /\ Fail(r, "ServiceError")
          /\ Log(r, Event("Unpack", op, "fs", FALSE))
    /\ UNCHANGED <<req, opts, desc, uuid, tmp, binIdx, remote, resp>>

-----------------------------------------------------------------------------
(* Pack: handlers::archive, and Respond                                    *)

\* builder.append_dir_all(".", src): every file and directory at or below
\* src, by its path relative to src
Packed(f, src) ==
    [rel \in {SubSeq(q, Len(src) + 1, Len(q)) : q \in Under(f, src)} |-> f[src \o rel]]

\* the output archive: the tar entries written, and whether the tar and gzip
\* streams were finished into the file
Tgz(entries, complete) == [tar |-> entries, complete |-> complete]

\* lines 220-222 and 259-267: File::create, append_dir_all, Ok(()).  The
\* builder and the encoder are finished when they go out of scope, where a
\* failing write has no one to report to
Archive(r) ==
    /\ pc[r] = "archive"
    /\ LET dst == shimmed_buildpack_archive(tmp[r], uuid[r])
           src == shimmed_buildpack_dir(tmp[r])
       IN
       \/ \E finished \in BOOLEAN :
          /\ fs' = Put(fs, dst :> File(Tgz(Packed(fs, src), finished)))
          /\ pc' = [pc EXCEPT ![r] = "respond"]
          /\ trace' = [trace EXCEPT ![r] =
                @ \o <<Event("Pack", "append_dir_all", "fs", TRUE),
                       Unreported("Pack", "finish", "fs", finished)>>]
          /\ err' = err
       \/ \E op \in {"create", "append_dir_all"} :
          /\ Fail(r, "ServiceError")
          /\ Log(r, Event("Pack", op, "fs", FALSE))
    /\ UNCHANGED <<req, opts, desc, uuid, tmp, binIdx, remote, resp>>

\* lines 224-235: fs::read the archive and answer 200; tmp_dir is dropped
\* when the handler returns
Respond(r) ==
    /\ pc[r] = "respond"
    /\ LET path == shimmed_buildpack_archive(tmp[r], uuid[r]) IN
       \/ /\ resp' = [resp EXCEPT ![r] =
                [status |-> 200, text |-> "", ctype |-> "application/x-gzip",
                 filename |-> shimmed_buildpack(uuid[r]),
                 archive |-> Some(fs[path].data)]]
          /\ fs' = DropTmpDir(fs, tmp[r])
          /\ pc' = [pc EXCEPT ![r] = "done"]
          /\ Log(r, Event("Respond", "read", "fs", TRUE))
          /\ err' = err
       \/ /\ Fail(r, "ServiceError")
          /\ Log(r, Event("Respond", "read", "fs", FALSE))
          /\ resp' = resp
    /\ UNCHANGED <<req, opts, desc, uuid, tmp, binIdx, remote>>

-----------------------------------------------------------------------------
(* Specification                                                           *)

Next ==
    \/ \E r \in Reqs : Receive(r)
    \/ \E r \in Reqs : ShimFilter(r)
    \/ \E r \in Reqs : Recover(r)
    \/ \E r \in Reqs : HealthFilter(r)
    \/ \E r \in Reqs : ShimResolve(r)
    \/ \E r \in Reqs : CreateTmpDir(r)
    \/ \E r \in Reqs : CreateBinDir(r)
    \/ \E r \in Reqs : CopyBin(r)
    \/ \E r \in Reqs : WriteManifest(r)
    \/ \E r \in Reqs : DownloadGet(r)
    \/ \E r \in Reqs : DownloadCreate(r)
    \/ \E r \in Reqs : DownloadChunk(r)
    \/ \E r \in Reqs : DownloadEnd(r)
    \/ \E r \in Reqs : Untar(r)
    \/ \E r \in Reqs : Archive(r)
    \/ \E r \in Reqs : Respond(r)

Spec == Init /\ [][Next]_vars

\* the number of requests the server handles at once
NumReq == 2

\* what clients send while several requests are handled at once
ConcRequests ==
    { [method |-> "GET", path |-> "shim", namespace |-> <<"h">>,
       name |-> <<"r", "b">>, query |-> NoOpts],
      [method |-> "GET", path |-> "health", namespace |-> <<"h">>,
       name |-> <<"r", "b">>, query |-> NoOpts] }

\* what the registry answers meanwhile: one of two packages, in one chunk
ConcResponses ==
    {[status |-> 200, gz |-> TRUE, entries |-> e, left |-> 1] :
        e \in {LegacyFiles, {<<"a.txt">>}}}

\* main: one task per connection, all on the routes of one server
InitConc == InitFor(1..NumReq)

\* the least of a set of numbers
Least(S) == CHOOSE x \in S : \A y \in S : x <= y

\* the steps of Next, on the requests and the registry answers above; every
\* local operation can still fail.  Which unused name tempdir() and which
\* unused token new_v4() return makes no difference to what a handler does
\* with it, so the least one stands for all of them
NextConc ==
    \/ \E r \in Reqs : ReceiveFrom(r, ConcRequests)
    \/ \E r \in Reqs : ShimFilter(r)
    \/ \E r \in Reqs : Recover(r)
    \/ \E r \in Reqs : HealthFilter(r)
    \/ \E r \in Reqs : ShimResolve(r) /\ (uuid'[r] = 0 \/ uuid'[r] = Least(FreeUuid))
    \/ \E r \in Reqs : CreateTmpDir(r) /\ (tmp'[r] = 0 \/ tmp'[r] = Least(FreeTmp))
    \/ \E r \in Reqs : CreateBinDir(r)
    \/ \E r \in Reqs : CopyBin(r)
    \/ \E r \in Reqs : WriteManifest(r)
    \/ \E r \in Reqs : DownloadGetFrom(r, ConcResponses)
    \/ \E r \in Reqs : DownloadCreate(r)
    \/ \E r \in Reqs : DownloadChunk(r)
    \/ \E r \in Reqs : DownloadEnd(r)
    \/ \E r \in Reqs : Untar(r)
    \/ \E r \in Reqs : Archive(r)
    \/ \E r \in Reqs : Respond(r)

SpecConc == InitConc /\ [][NextConc]_vars

-----------------------------------------------------------------------------
(* Vocabulary of the properties                                            *)

\* request r has been answered
Answered(r) == pc[r] = "done"

\* request r is a GET /v1/{namespace}/{name}
ShimGet(r) == req[r].path = "shim" /\ req[r].method = "GET"

\* handlers::shim has been called for r and has not returned
InHandler(r) ==
    pc[r] \in {"resolve", "tmpdir", "bindir", "copy", "manifest", "get", "create",
               "chunk", "untar", "archive", "respond"}

\* handlers::shim was called for r
Handled(r) == Len(trace[r]) > 0

\* the four validations of handlers::shim, each on the decoded input of r
ValidId(r) == ResolveId(req[r].namespace, req[r].name).ok
ValidVersion(r) == ResolveVersion(opts[r]).ok
ValidApi(r) == ResolveApi(opts[r]).ok
ValidStacks(r) == ResolveStacks(opts[r]).ok
ValidInput(r) == ValidId(r) /\ ValidVersion(r) /\ ValidApi(r) /\ ValidStacks(r)

\* the events of r that satisfy P, by index
Has(r, P(_)) == \E i \in 1..Len(trace[r]) : P(trace[r][i])

IsTransportFailure(e) == e.kind = "net" /\ ~e.ok
IsFsFailure(e) == e.kind = "fs" /\ ~e.ok
IsSideEffect(e) == e.kind \in {"fs", "net"}

-----------------------------------------------------------------------------
(* Properties                                                              *)

\* C1: every GET /v1/{namespace}/{name} that reaches the handler and whose
\* input fails validation (identifier, version, api or a stack id) is answered
\* with status 400.
C1_InvalidInputIs400 ==
    \A r \in Reqs :
        (Answered(r) /\ ShimGet(r) /\ Handled(r) /\ ~ValidInput(r))
            => resp[r].status = 400

\* C2: a validated request whose fetch ends in a transport failure (the get
\* fails, the body stream breaks, or the registry answers a non-success
\* status) fails in the Fetch stage and is answered with status 400.
C2_TransportFailureIs400 ==
    \A r \in Reqs :
        (/\ Answered(r) /\ Handled(r)
         /\ \/ Has(r, IsTransportFailure)
            \/ remote[r].status \notin {0, 200})
        => /\ resp[r].status = 400
           /\ trace[r][Len(trace[r])].stage = "Fetch"

\* C3: a validated request in which any local filesystem operation of any
\* stage fails is answered with status 500.
C3_FsFailureIs500 ==
    \A r \in Reqs :
        (Answered(r) /\ Has(r, IsFsFailure)) => resp[r].status = 500

\* C4: once a request has reached a terminal state, whether a 200, a client
\* error or a service error, nothing it created is left: its temporary
\* directory and all below it (staging tree, download, output archive) are
\* gone, and everything outside the service's own directory belongs to the
\* temporary directory of a request that is still in its handler.
C4_NoTempLeftBehind ==
    /\ \A r \in Reqs :
          (~InHandler(r) /\ tmp[r] # 0) => Under(fs, tmp_dir(tmp[r])) = {}
    /\ \A p \in DOMAIN fs :
          \/ IsPrefix(buildpack_dir, p)
          \/ \E r \in Reqs : InHandler(r) /\ tmp[r] # 0 /\ IsPrefix(tmp_dir(tmp[r]), p)

\* a request failed in Unpack, after the staging tree and the download were
\* written, and was answered
C4_Witness ==
    \E r \in Reqs :
        /\ Answered(r) /\ resp[r].status # 200
        /\ Len(trace[r]) > 0 /\ trace[r][Len(trace[r])].stage = "Unpack"
        /\ tmp[r] # 0

\* C5: no filesystem or network operation of a request happens before all
\* four validations have succeeded, and a request that fails validation
\* leaves the filesystem as it was and holds no temporary directory.
C5_ValidatedBeforeEffects ==
    \A r \in Reqs :
        /\ (Has(r, IsSideEffect) \/ tmp[r] # 0) =>
              /\ ValidId(r) /\ ValidVersion(r) /\ ValidApi(r) /\ ValidStacks(r)
              /\ trace[r][1] = Event("Resolve", "resolve", "pure", TRUE)
        /\ (Handled(r) /\ ~ValidInput(r)) =>
              /\ trace[r] = <<Event("Resolve", "resolve", "pure", FALSE)>>
              /\ tmp[r] = 0
              /\ \A p \in DOMAIN fs : IsPrefix(buildpack_dir, p)

\* a request whose identifier and version are well-formed and whose api is
\* malformed has been answered
C5_Witness ==
    \E r \in Reqs :
        Answered(r) /\ Handled(r) /\ ValidId(r) /\ ValidVersion(r) /\ ~ValidApi(r)

Stages == <<"Resolve", "Prepare", "Fetch", "Unpack", "Pack", "Respond">>
StageIdx(st) == CHOOSE i \in 1..Len(Stages) : Stages[i] = st

\* the operation that ends a stage, and the operations of Prepare in order
LastOp(st) ==
    CASE st = "Resolve" -> "resolve" [] st = "Prepare" -> "write_manifest"
      [] st = "Fetch" -> "end" [] st = "Unpack" -> "unpack"
      [] st = "Pack" -> "finish" [] st = "Respond" -> "read"
PrepareRank(op) ==
    CASE op = "tempdir" -> 1 [] op = "create_dir_all" -> 2 [] op = "copy" -> 3
      [] op = "to_string" -> 4 [] op = "write_manifest" -> 4

C7_FailureShortCircuits ==
    \A r \in Reqs :
        LET t == trace[r] IN
        /\ \A i \in 1..(Len(t) - 1) : t[i].ok
        /\ (Len(t) > 0 /\ ~t[Len(t)].ok) =>
              resp[r].status # 200 /\ resp[r].archive = None
        /\ (ShimGet(r) /\ (resp[r].status = 200 \/ resp[r].archive # None)) =>
              /\ \A i \in 1..Len(t) : t[i].ok
              /\ \A k \in 1..Len(Stages) :
                    Has(r, LAMBDA e : e.op = LastOp(Stages[k]) /\ e.stage = Stages[k])

HasManifest(r) == tmp[r] # 0 /\ buildpack_toml_path(tmp[r]) \in DOMAIN fs
Manifest(r) == fs[buildpack_toml_path(tmp[r])].data

\* handlers::shim has resolved the descriptor of r
Resolved(r) == Handled(r) /\ trace[r][1].ok

\* C9: the display name of the resolved descriptor and of the manifest is the
\* `name` query parameter when there is one, and otherwise the name segment
\* of the identifier, not "namespace/name".
C9_DisplayName ==
    \A r \in Reqs :
        Resolved(r) =>
            LET want == IF IsSome(opts[r].name) THEN Unwrap(opts[r].name)
                        ELSE req[r].name
            IN  /\ desc[r].name = want
                /\ HasManifest(r) => Manifest(r).name = want

\* C10: an omitted query parameter resolves to its fixed default: version to
\* 0.1.0, api to 0.4, stacks to the list [heroku-18, heroku-20]; and every
\* resolved stack has empty mixins.  The manifest carries the same values.
C10_Defaults ==
    \A r \in Reqs :
        Resolved(r) =>
            /\ opts[r].version = None =>
                  /\ desc[r].version = [major |-> 0, minor |-> 1, patch |-> 0,
                                        pre |-> <<>>, build |-> <<>>]
                  /\ HasManifest(r) => Manifest(r).version = <<"0", ".", "1", ".", "0">>
            /\ opts[r].api = None =>
                  /\ desc[r].api = [major |-> 0, minor |-> 4]
                  /\ HasManifest(r) => Manifest(r).api = <<"0", ".", "4">>
            /\ opts[r].stacks = None =>
                  /\ [i \in 1..Len(desc[r].stacks) |-> desc[r].stacks[i].id]
                        = << <<"h", "e", "r", "o", "k", "u", "-", "1", "8">>,
                             <<"h", "e", "r", "o", "k", "u", "-", "2", "0">> >>
                  /\ HasManifest(r) => Len(Manifest(r).stacks) = 2
            /\ \A i \in 1..Len(desc[r].stacks) : desc[r].stacks[i].mixins = <<>>
            /\ HasManifest(r) =>
                  \A i \in 1..Len(Manifest(r).stacks) : Manifest(r).stacks[i].mixins = <<>>

\* a request without version, api and stacks has written its manifest
C10_Witness ==
    \E r \in Reqs :
        /\ Resolved(r) /\ HasManifest(r)
        /\ opts[r].version = None /\ opts[r].api = None /\ opts[r].stacks = None

\* the tar entries of the archive r was answered with
Returned(r) == Unwrap(resp[r].archive).tar

\* r was answered 200 with an archive
Shimmed(r) == ShimGet(r) /\ resp[r].status = 200 /\ IsSome(resp[r].archive)

\* C11: the archive of every 200 response is whole and the buildpack.toml
\* inside it carries the request's values: the supplied version, the supplied
\* api, and one stack per supplied stack in the supplied order (the resolved
\* list, entry for entry), none added and none missing.
C11_ManifestCarriesRequest ==
    \A r \in Reqs :
        Shimmed(r) =>
            /\ Unwrap(resp[r].archive).complete
            /\ <<"buildpack.toml">> \in DOMAIN Returned(r)
            /\ LET m == Returned(r)[<<"buildpack.toml">>].data
                   q == req[r].query
               IN  /\ IsSome(q.version) => m.version = Unwrap(q.version)
                   /\ IsSome(q.api) => m.api = Unwrap(q.api)
                   /\ IsSome(q.stacks) =>
                         [i \in 1..Len(m.stacks) |-> m.stacks[i].id] = <<Unwrap(q.stacks)>>
                   /\ Len(m.stacks) = Len(desc[r].stacks)
                   /\ \A i \in 1..Len(m.stacks) : m.stacks[i].id = desc[r].stacks[i].id
                   /\ m.id = req[r].namespace \o <<"/">> \o req[r].name

\* r is a GET /health
HealthGet(r) == req[r].path = "health" /\ req[r].method = "GET"

\* C12: every GET /health is answered 200 with the body "health check ok",
\* whatever the other requests are doing, and although the shim route and its
\* recovery see the request first.
C12_HealthAlwaysOk ==
    \A r \in Reqs :
        Answered(r) /\ HealthGet(r) =>
            /\ resp[r].status = 200
            /\ resp[r].text = "health check ok"

\* a GET /health has been answered while a shim request is between Fetch and
\* Unpack, its files on disk
C12_Witness ==
    \E r, q \in Reqs :
        /\ Answered(r) /\ HealthGet(r) /\ resp[r].status = 200
        /\ ShimGet(q) /\ pc[q] = "untar"

\* no stage has run for r: no operation recorded, nothing created
NoStage(r) == trace[r] = <<>> /\ tmp[r] = 0 /\ uuid[r] = 0

\* C13: a request whose path is neither /health nor /v1/{namespace}/{name}
\* is answered 404, whatever its method and query, and no stage runs for it.
C13_UnknownPathIs404 ==
    \A r \in Reqs :
        req[r].path = "other" =>
            /\ NoStage(r)
            /\ Answered(r) => resp[r].status = 404

\* a POST to an unknown path has been answered
C13_Witness ==
    \E r \in Reqs :
        Answered(r) /\ req[r].path = "other" /\ req[r].method = "POST"

\* the paths, relative to the staging tree, the archive of r is to hold: the
\* root, the manifest, bin/ with the four entry points, and target/ with the
\* legacy package r fetched
Staged(r) ==
    {<<>>, <<"buildpack.toml">>, <<"bin">>, <<"target">>}
        \cup {<<"bin", Bins[i]>> : i \in 1..4}
        \cup {<<"target">> \o e : e \in Kept(remote[r].entries)}
        \cup {<<"target">> \o d : d \in UNION {Parents(e) : e \in Kept(remote[r].entries)}}

\* C14: the download and the output archive lie outside the staging tree, and
\* the archive of every 200 response is whole and holds exactly buildpack.toml,
\* the four entry points under bin/ as they are in the source directory, and
\* the legacy contents under target/: neither the downloaded .tgz nor the
\* output archive is in it.
C14_ArchiveHoldsStagingTree ==
    \A r \in Reqs :
        /\ tmp[r] # 0 =>
              /\ ~IsPrefix(shimmed_buildpack_dir(tmp[r]), v2_buildpack_path(tmp[r]))
              /\ ~IsPrefix(shimmed_buildpack_dir(tmp[r]),
                           shimmed_buildpack_archive(tmp[r], uuid[r]))
        /\ Shimmed(r) =>
              /\ Unwrap(resp[r].archive).complete
              /\ DOMAIN Returned(r) = Staged(r)
              /\ \A i \in 1..4 : Returned(r)[<<"bin", Bins[i]>>] = fs[SourceBin(Bins[i])]
              /\ \A e \in Kept(remote[r].entries) :
                    Returned(r)[<<"target">> \o e] = File(<<"legacy">> \o e)

\* p lies in the temporary directory of r
Owns(r, p) == tmp[r] # 0 /\ IsPrefix(tmp_dir(tmp[r]), p)

\* this step is a step of r
Moved(r) == pc'[r] # pc[r] \/ trace'[r] # trace[r] \/ remote'[r] # remote[r]

\* this step creates, rewrites or removes p
Touched(p) == p \notin DOMAIN fs \/ p \notin DOMAIN fs' \/ fs'[p] # fs[p]

\* requests whose temporary directories exist have different ones, the source
\* directory of the entry points is as it was at the start, and what a request
\* is answered with is its own staging tree with the package it fetched
Isolated ==
    /\ \A r, q \in Reqs :
          ( /\ r # q
            /\ tmp[r] # 0 /\ tmp_dir(tmp[r]) \in DOMAIN fs
            /\ tmp[q] # 0 /\ tmp_dir(tmp[q]) \in DOMAIN fs )
          => tmp[r] # tmp[q]
    /\ \A i \in 1..4 :
          /\ SourceBin(Bins[i]) \in DOMAIN fs
          /\ fs[SourceBin(Bins[i])] = File(<<"bin", Bins[i]>>)
    /\ \A r \in Reqs : Shimmed(r) => DOMAIN Returned(r) = Staged(r)

\* C15: with requests handled at once in any interleaving, every step of a
\* request creates, rewrites and removes only paths in that request's own
\* temporary directory, no two requests have the same temporary directory,
\* and the source directory of the entry points, which all of them read, is
\* never written.
C15_RequestsIsolated ==
    /\ []Isolated
    /\ [][\A r \in Reqs : Moved(r) =>
            \A p \in DOMAIN fs \cup DOMAIN fs' :
                Touched(p) => Owns(r, p) \/ Owns(r, p)']_vars

\* two requests have fetched different packages and both have their unpacked
\* trees on disk, waiting for Pack
C15_Witness ==
    \E r, q \in Reqs :
        /\ r # q
        /\ pc[r] = "archive" /\ pc[q] = "archive"
        /\ remote[r].entries # remote[q].entries
        /\ target_dir(tmp[r]) \in DOMAIN fs /\ target_dir(tmp[q]) \in DOMAIN fs

\* an operation of Pack that failed
IsPackFailure(e) == e.stage = "Pack" /\ ~e.ok

\* C16: every failure of Pack, the finishing of the tar and gzip streams
\* included, is returned as an error by the handler; a request in which
\* writing the output archive failed at any point ends as a service error
\* and is never answered 200 with that archive.
C16_PackFailureIsReported ==
    \A r \in Reqs :
        /\ \A i \in 1..Len(trace[r]) :
              IsPackFailure(trace[r][i]) => trace[r][i].returned
        /\ Has(r, IsPackFailure) =>
              /\ pc[r] \notin {"respond"}
              /\ Answered(r) => resp[r].status = 500 /\ resp[r].archive = None

\* this step is the one that answers r with 200
Responds(r) == pc[r] = "respond" /\ pc'[r] = "done" /\ resp'[r].status = 200

\* C17: the filename a 200 response advertises is the token of the request
\* followed by ".tgz"; it names the file in the request's temporary directory
\* that Pack wrote, and the body is what that file holds when Respond reads it;
\* the token is drawn once per request, and no two requests advertise the same
\* filename.
C17_FilenameIsArchiveName ==
    /\ [](\A r \in Reqs : Shimmed(r) =>
            /\ uuid[r] # 0
            /\ resp[r].filename = shimmed_buildpack(uuid[r])
            /\ \A q \in Reqs \ {r} :
                  Shimmed(q) => resp[q].filename # resp[r].filename)
    /\ [][\A r \in Reqs :
            /\ uuid[r] # 0 => uuid'[r] = uuid[r]
            /\ Responds(r) =>
                  LET p == tmp_dir(tmp[r]) \o <<resp'[r].filename>> IN
                  /\ p \in DOMAIN fs
                  /\ "tar" \in DOMAIN fs[p].data
                  /\ resp'[r].archive = Some(fs[p].data)]_vars

\* two requests have been answered 200, each with an archive
C17_Witness == \E r, q \in Reqs : r # q /\ Shimmed(r) /\ Shimmed(q)

\* this step is an Unpack of r that succeeded
Unpacks(r) == pc[r] = "untar" /\ pc'[r] = "archive"

\* the manifest and the four entry points of r are in the staging tree as
\* Prepare wrote them
PreparedIntact(r) ==
    /\ HasManifest(r)
    /\ Manifest(r) = toml_to_string(buildpack_toml(desc[r]))
    /\ \A i \in 1..4 :
          /\ bin_dir(tmp[r]) \o <<Bins[i]>> \in DOMAIN fs
          /\ fs[bin_dir(tmp[r]) \o <<Bins[i]>>] = fs[SourceBin(Bins[i])]

\* C18: whatever the fetched package holds, Unpack creates and rewrites only
\* paths at or below target/ of the staging tree, so after it buildpack.toml
\* and the four bin/ files are as Prepare wrote them, and so they are in the
\* archive the request is answered with.
C18_UnpackStaysInTarget ==
    /\ [](\A r \in Reqs :
            /\ pc[r] \in {"untar", "archive", "respond"} => PreparedIntact(r)
            /\ Shimmed(r) =>
                  /\ Returned(r)[<<"buildpack.toml">>].data =
                        toml_to_string(buildpack_toml(desc[r]))
                  /\ \A i \in 1..4 :
                        Returned(r)[<<"bin", Bins[i]>>] = fs[SourceBin(Bins[i])])
    /\ [][\A r \in Reqs : Unpacks(r) =>
            \A p \in DOMAIN fs \cup DOMAIN fs' :
                Touched(p) => IsPrefix(target_dir(tmp[r]), p)]_vars

\* a package with entries named ../buildpack.toml and bin/detect has been
\* unpacked
C18_Witness ==
    \E r \in Reqs :
        /\ pc[r] = "archive"
        /\ remote[r].entries = HostileFiles
        /\ target_dir(tmp[r]) \o <<"bin", "detect">> \in DOMAIN fs

\* the path of r is /v1/{namespace}/{name}, and get() or query() rejects it
RejectedAtShim(r) ==
    /\ req[r].path = "shim"
    /\ req[r].method # "GET" \/ ~DecodeQuery(req[r].query).ok

\* C19: a request to /v1/{namespace}/{name} that is rejected for its method
\* or for a query that does not decode is answered by the recovery of the
\* shim route, with status 500 and the body "INTERNAL SERVER ERROR"; it never
\* comes to the health route and no stage runs for it.
C19_RejectedBeforeHandlerIs500 ==
    \A r \in Reqs :
        RejectedAtShim(r) =>
            /\ pc[r] # "health_filter"
            /\ NoStage(r)
            /\ Answered(r) =>
                  /\ resp[r].status = 500
                  /\ resp[r].text = "INTERNAL SERVER ERROR"
                  /\ resp[r].archive = None

\* a GET with valid identifier and a `stacks` parameter has been answered
C19_Witness ==
    \E r \in Reqs :
        /\ Answered(r) /\ ShimGet(r) /\ ValidId(r)
        /\ IsSome(req[r].query.stacks)
        /\ resp[r].status = 500

====
